---- MODULE Spec2Model ----
(***************************************************************************)
(* The Express backend of src/backend/server.js as a state machine.  Spec  *)
(* follows one client request, either POST /api/agent/run (the streaming   *)
(* proxy with SQL interception and data-to-analytics chaining) or POST     *)
(* /api/statements (the statements proxy).  Every await of a handler is a  *)
(* step boundary; the upstream services (agent endpoint, statement         *)
(* endpoint) are the environment and answer, fail, or close their stream   *)
(* nondeterministically.  ConcSpec interleaves the steps of several        *)
(* /api/agent/run requests that are in flight together.                    *)
(* LiveSpec is the run route under weak fairness of the handler's steps,   *)
(* DisconnectSpec adds the client closing its connection, and the chat     *)
(* client of useAgentAPIQuery.ts is an operator over the response stream.  *)
(* ChatSpec is one chat query (the run route alone) whose responses the    *)
(* chat client is folded over, and SessionSpec is the session protocol of  *)
(* /auth/login, /auth/logout and the frontend middleware.                  *)
(***************************************************************************)
EXTENDS Naturals, Sequences, FiniteSets, TLC

\* Upstream events (other than the [DONE] sentinel) consumed per request,
\* primary and secondary streams together.
MaxEvents == 3

\* Body chunks the statement endpoint's response is relayed in.
MaxChunks == 2

\* Characters of a statement string handed to POST /api/statements.
MaxStmtLen == 2

VARIABLES
    snowflakeUrl,    \* process.env.SNOWFLAKE_URL is set
    pc,              \* position of the handler (which await it is suspended at)
    route,           \* "none" | "run" | "statements": the request being served
    messages,        \* req.body.messages of the /api/agent/run request
    username,        \* decoded demo_username cookie
    statement,       \* req.body.statement of the /api/statements request
    resStatus,       \* res.statusCode (0: not set by the handler)
    contentType,     \* Content-Type header set by the handler
    resJson,         \* body sent by res.json(...), or NoBody
    headersSent,     \* res.headersSent
    resEnded,        \* res.end() / res.json() completed the response
    out,             \* SSE frames written to the client, in order
    body,            \* raw chunks written by the statements proxy
    sqlDetected,     \* let sqlDetected
    acc,             \* const assistantMessageContent = []
    payload,         \* the loop's current payload while an interception runs
    curEvent,        \* the loop's current event while an interception runs
    accIdx,          \* where payload.delta.content[1] sits in acc (0: nowhere)
    agentReqs,       \* bodies POSTed to /api/v2/cortex/agent:run, in order
    stmtReqs,        \* bodies POSTed to /api/v2/statements, in order
    nEvents,         \* upstream events consumed so far (bounded by MaxEvents)
    nChunks,         \* body chunks relayed so far (bounded by MaxChunks)
    hist,            \* history: every upstream event / statement response consumed
    thrown,          \* history: "none" | "upstream" | "internal" (what was thrown)
    outAtThrow,      \* history: out at the moment the exception was thrown
    reqs,            \* the handler-local state of each of several concurrent requests
    cookie,          \* the browser's demo_username cookie (Absent: none stored)
    authPc,          \* position of the /auth/login handler: "idle" | "await_lookup"
    loginBody,       \* req.body of the login being served
    authRes          \* the last response of /auth/login, /auth/logout or the middleware

\* The state of the one-request-at-a-time machine.
single == << snowflakeUrl, pc, route, messages, username, statement, resStatus, contentType,
             resJson, headersSent, resEnded, out, body, sqlDetected, acc, payload,
             curEvent, accIdx, agentReqs, stmtReqs, nEvents, nChunks, hist,
             thrown, outAtThrow >>

\* The state of the session protocol.
auth == << cookie, authPc, loginBody, authRes >>

vars == << single, reqs, auth >>

-----------------------------------------------------------------------------
(* JSON values                                                              *)

\* A property that is undefined / missing.
Absent == "<absent>"

DoneToken == "[DONE]"

\* JS truthiness of an optional string.
Truthy(v) == v \notin {Absent, ""}

\* Content items.  A tool_results item {tool_results: {name, content: [{json:
\* {sql, text}}]}} is flattened: sql and text are content[0].json.sql / .text.
TextItem(t) == [type |-> "text", name |-> Absent, sql |-> Absent, text |-> t]

ToolUse(n) == [type |-> "tool_use", name |-> n, sql |-> Absent, text |-> Absent]

ToolResults(n, s, t) == [type |-> "tool_results", name |-> n, sql |-> s, text |-> t]

\* A decoded JSON value that may carry delta.content.  ctype is "none" when
\* delta.content is missing (or falsy), "array" when it is an array, "other"
\* when it is a truthy non-array (a string, a number, an object).
Delta(ctype, content) == [kind |-> "delta", ctype |-> ctype, content |-> content]

\* A JS string used as a payload.
Str(s) == [kind |-> "str", str |-> s]

SqlText == "SELECT 1"

SqlText2 == "SELECT 2"

\* The decoded payloads the upstream agent stream is drawn from.
PText == Delta("array", <<TextItem("hi")>>)

PEmpty == Delta("array", <<>>)

PNoDelta == Delta("none", <<>>)

PToolUse == Delta("array", <<ToolUse("sql_exec"), ToolUse("analyst1")>>)

PSqlWithText == Delta("array", <<TextItem("t"), ToolResults("analyst1", SqlText, "why")>>)

PSqlNoText == Delta("array", <<ToolUse("analyst1"), ToolResults("analyst1", SqlText2, Absent)>>)

PSqlAtZero == Delta("array", <<ToolResults("analyst1", SqlText, Absent)>>)

PNotArray == Delta("other", <<>>)

\* An upstream stream event {event, data}.  data is the wire string: enc says
\* whether it is the sentinel, empty, valid JSON (of the value v) or text that
\* is not JSON (v is then the string itself).
Data(enc, v) == [enc |-> enc, v |-> v]

Event(name, data) == [event |-> name, data |-> data]

DoneEvent == Event(Absent, Data("done", Str(DoneToken)))

PrimaryEvents ==
    { Event("message.delta", Data("json", p)) :
        p \in {PEmpty, PToolUse, PSqlWithText, PSqlNoText, PSqlAtZero, PNotArray} }
    \cup { Event("execution_trace", Data("empty", Str(""))),
           Event("execution_trace", Data("invalid", Str("not json"))),
           Event(Absent, Data("invalid", Str("not json"))) }

\* The events the data-to-analytics stream is drawn from.  Its loop neither
\* accumulates nor looks for SQL, so one SQL-bearing payload stands for all.
SecondaryEvents ==
    { Event("message.delta", Data("json", p)) : p \in {PText, PEmpty, PSqlWithText, PNotArray} }
    \cup { Event("execution_trace", Data("empty", Str(""))),
           Event(Absent, Data("invalid", Str("not json"))),
           Event("message.delta", Data("json", Str(DoneToken))) }

\* Responses of the statement endpoint, as decoded by stmtResp.json().
StmtJson(hasList, handles, handle) ==
    [kind |-> "stmt", hasList |-> hasList, statementHandles |-> handles,
     statementHandle |-> handle]

StmtResponses ==
    { StmtJson(TRUE, <<"h1", "h2">>, Absent),
      StmtJson(FALSE, <<>>, "h0"),
      StmtJson(FALSE, <<>>, Absent) }

\* req.body.messages: an array of conversation messages, or something else.
Messages(type, v) == [type |-> type, v |-> v]

MessagesInputs ==
    { Messages("array", <<"m1", "m2">>), Messages("undefined", <<>>),
      Messages("string", <<>>), Messages("object", <<>>) }

Usernames == {"", "Alice"}

\* Status of the agent endpoint's streaming response.
AgentStatuses == {200}

\* Status of the statement endpoint's response to the statements proxy.
UpstreamStatuses == {200, 422}

\* req.body.statement: undefined, a non-string, or a string (its characters).
Chars == {" ", "S"}

StatementInputs ==
    { [type |-> "undefined", chars |-> <<>>], [type |-> "number", chars |-> <<>>] }
    \cup { [type |-> "string", chars |-> s] :
             s \in UNION { [1..n -> Chars] : n \in 0..MaxStmtLen } }

\* Body chunks of the statement endpoint's response.
Chunks == {"a", "b"}

\* What the statements proxy receives: the response head, then body chunks.
ResponseHead(status, ctype) == [kind |-> "head", status |-> status, ctype |-> ctype]

Chunk(c) == [kind |-> "chunk", chunk |-> c]

NoBody == [kind |-> "none"]

NoPayload == [kind |-> "none"]

NoEvent == Event(Absent, Data("none", NoPayload))

\* Concurrent /api/agent/run requests.  Everything a request's client and its
\* upstream streams deliver is tagged with the request: its messages, its
\* cookie, the items of its events and the handle of its statement.
Requests == {"r1", "r2"}

MessagesOf(r) == << "m-" \o r >>

SqlOf(r) == "SELECT " \o r

HandleOf(r) == "h-" \o r

RText(r) == Delta("array", <<TextItem(r)>>)

RSql(r) == Delta("array", <<TextItem(r), ToolResults("analyst1", SqlOf(r), Absent)>>)

PrimaryEventsOf(r) == { Event("message.delta", Data("json", p)) : p \in {RText(r), RSql(r)} }

SecondaryEventsOf(r) == { Event("message.delta", Data("json", RText(r))) }

StmtResponseOf(r) == StmtJson(FALSE, <<>>, HandleOf(r))

\* The locals of a handler invocation that has not started.
IdleReq ==
    [ pc |-> "idle", messages |-> <<>>, username |-> "", sqlDetected |-> FALSE,
      acc |-> <<>>, accIdx |-> 0, payload |-> NoPayload, statementHandle |-> Absent,
      out |-> <<>>, resJson |-> NoBody, sent |-> <<>>, stmts |-> <<>>, n |-> 0 ]

-----------------------------------------------------------------------------
(* Helper functions of server.js                                            *)

\* createSSEWriter: the data line is the bare token when dataObj === '[DONE]'
\* and JSON.stringify(dataObj) otherwise; src records who asked for the write.
SSEFrame(eventName, dataObj, src) ==
    [ event |-> eventName,
      data  |-> IF dataObj.kind = "str" /\ dataObj.str = DoneToken
                THEN [enc |-> "literal", value |-> dataObj]
                ELSE [enc |-> "json", value |-> dataObj],
      src   |-> src ]

\* As ParsePayload, but data that is not JSON decodes to an empty delta.
ParsePayload_DropInvalid(event) ==
    CASE event.data.enc = "empty"   -> PNoDelta
      [] event.data.enc = "json"    -> event.data.v
      [] OTHER                      -> PEmpty

\* try { payload = JSON.parse(event.data || '{}') } catch { payload = event.data }
ParsePayload(event) ==
    CASE event.data.enc = "empty"   -> PNoDelta
      [] event.data.enc = "json"    -> event.data.v
      [] OTHER                      -> event.data.v

\* event.data === '[DONE]'
IsDone(event) == event.data.enc = "done"

\* shouldSkipEvent(event, payload)
shouldSkipEvent(event, p) ==
    \/ event.event = "execution_trace"
    \/ p.kind = "delta" /\ p.ctype = "array" /\ Len(p.content) = 0

NoJson == [sql |-> Absent, text |-> Absent]

\* extractSQLFromPayload: payload?.delta?.content?.[1]?.tool_results?.content?.[0]?.json
extractSQLFromPayload(p) ==
    IF /\ p.kind = "delta"
       /\ p.ctype = "array"
       /\ Len(p.content) >= 2
       /\ p.content[2].type = "tool_results"
    THEN [sql |-> p.content[2].sql, text |-> p.content[2].text]
    ELSE NoJson

\* contentItem?.tool_use?.name !== 'sql_exec'
NotSqlExec(item) == ~(item.type = "tool_use" /\ item.name = "sql_exec")

\* The items the forEach of the handler pushes for a payload.
Accumulated(p) ==
    IF p.kind = "delta" /\ p.ctype = "array" THEN SelectSeq(p.content, NotSqlExec) ELSE <<>>

\* payload.delta.content.forEach is not a function
ForEachThrows(p) == p.kind = "delta" /\ p.ctype = "other"

\* if (payload?.delta?.content?.[1]?.tool_results?.content?.[0]?.json?.sql) { ... = 'REDACTED' }
Redact(p) ==
    IF Truthy(extractSQLFromPayload(p).sql)
    THEN [p EXCEPT !.content[2].sql = "REDACTED"]
    ELSE p

\* As TenantSql, but joined as two statements separated by a semicolon.
TenantSql_Semicolon(user, sql) ==
    IF Truthy(user) THEN "SET TENANT = '" \o user \o "'; " \o sql ELSE sql

\* executeSQL: const tenantSql = username ? `SET TENANT = '${username}' ->> ${sql}` : sql
TenantSql(user, sql) ==
    IF Truthy(user) THEN "SET TENANT = '" \o user \o "' ->> " \o sql ELSE sql

StmtPayload(text) ==
    [statement |-> text, warehouse |-> "MULTISALES_WH", parameters |-> "STATEMENT_PARAMETERS"]

\* As SelectHandle, but the first handle of the list is taken.
SelectHandle_First(stmtJson) ==
    IF stmtJson.hasList /\ Len(stmtJson.statementHandles) > 0
    THEN stmtJson.statementHandles[1]
    ELSE stmtJson.statementHandle

\* stmtJson.statementHandles?.at(-1) || stmtJson.statementHandle
SelectHandle(stmtJson) ==
    IF /\ stmtJson.hasList
       /\ Len(stmtJson.statementHandles) > 0
       /\ Truthy(stmtJson.statementHandles[Len(stmtJson.statementHandles)])
    THEN stmtJson.statementHandles[Len(stmtJson.statementHandles)]
    ELSE stmtJson.statementHandle

\* createAgentRequestBody(messages)
createAgentRequestBody(msgs) == [config |-> "AGENT_MODEL_CONFIG", messages |-> msgs]

\* As Data2AnalyticsMessages, but the synthetic tool result comes before the
\* assistant message.
Data2AnalyticsMessages_ResultFirst(msgs, content, handle) ==
    msgs \o << [role |-> "user",
                content |-> << [type |-> "tool_results", name |-> "sql_exec",
                                json |-> [query_id |-> handle]] >>],
               [role |-> "assistant", content |-> content] >>

\* The message list streamData2Analytics sends: [...messages, assistantMessage, sqlExecMessage]
Data2AnalyticsMessages(msgs, content, handle) ==
    msgs \o << [role |-> "assistant", content |-> content],
               [role |-> "user",
                content |-> << [type |-> "tool_results", name |-> "sql_exec",
                                json |-> [query_id |-> handle]] >>] >>

TextDelta(text) ==
    [kind |-> "delta", id |-> "msg_000", object |-> "message.delta", ctype |-> "array",
     content |-> <<TextItem(text \o "\n\n---\n\n")>>]

Marker == [kind |-> "marker", message |-> "Starting data-to-analytics"]

ErrorBody(msg) == [kind |-> "error", error |-> msg]

\* typeof statement !== 'string' || !statement.trim()
Trim(chars) ==
    LET idx   == {i \in 1..Len(chars) : chars[i] # " "}
        first == CHOOSE i \in idx : \A j \in idx : i <= j
        last  == CHOOSE i \in idx : \A j \in idx : j <= i
    IN  IF idx = {} THEN <<>> ELSE SubSeq(chars, first, last)

\* As StatementRejected without the trim(): a whitespace-only statement passes.
StatementRejected_NoTrim(stmt) ==
    stmt.type # "string" \/ stmt.chars = <<>>

StatementRejected(stmt) ==
    stmt.type # "string" \/ Trim(stmt.chars) = <<>>

\* As MessagesRejected with !messages in place of !Array.isArray(messages).
MessagesRejected_Falsy(msgs) == msgs.type = "undefined"

\* !Array.isArray(messages)
MessagesRejected(msgs) == msgs.type # "array"

-----------------------------------------------------------------------------
(* The response object                                                      *)

\* return res.status(code).json({ error: msg }); json() leaves a Content-Type
\* that is already set as it is.
SendJson(code, msg) ==
    /\ resStatus' = code
    /\ contentType' = IF contentType = Absent THEN "application/json" ELSE contentType
    /\ resJson' = ErrorBody(msg)
    /\ headersSent' = TRUE
    /\ resEnded' = TRUE
    /\ pc' = "ended"

\* As RunCatch, but the stream is also closed with the done sentinel.
RunCatch_AlsoDone(msg) ==
    IF headersSent
    THEN /\ out' = out \o << SSEFrame("error", ErrorBody(msg), "handler"),
                             SSEFrame("done", Str(DoneToken), "handler") >>
         /\ resEnded' = TRUE
         /\ pc' = "ended"
         /\ UNCHANGED <<resStatus, contentType, resJson, headersSent>>
    ELSE /\ SendJson(500, msg)
         /\ UNCHANGED out

\* As RunCatch without the res.headersSent test: always an SSE error frame.
RunCatch_AlwaysFrame(msg) ==
    /\ out' = Append(out, SSEFrame("error", ErrorBody(msg), "handler"))
    /\ headersSent' = TRUE
    /\ resEnded' = TRUE
    /\ pc' = "ended"
    /\ UNCHANGED <<resStatus, contentType, resJson>>

\* The catch block of app.post('/api/agent/run'): an SSE error frame once the
\* headers are sent, a plain 500 otherwise.
RunCatch(msg) ==
    IF headersSent
    THEN /\ out' = Append(out, SSEFrame("error", ErrorBody(msg), "handler"))
         /\ resEnded' = TRUE
         /\ pc' = "ended"
         /\ UNCHANGED <<resStatus, contentType, resJson, headersSent>>
    ELSE /\ SendJson(500, msg)
         /\ UNCHANGED out

\* An exception reaches the catch block; kind is "upstream" for a rejected
\* fetch or a failed stream and "internal" for a TypeError of the handler.
Throw(kind, msg) ==
    /\ thrown' = kind
    /\ outAtThrow' = out
    /\ RunCatch(msg)

\* As Finalize, but a buffered upstream payload is flushed after the sentinel.
Finalize_FlushAfterDone(o, detected) ==
    /\ out' = (IF detected THEN Append(o, SSEFrame("done", Str(DoneToken), "handler")) ELSE o)
               \o << SSEFrame("message.delta", PText, "primary") >>
    /\ UNCHANGED contentType
    /\ headersSent' = TRUE
    /\ resEnded' = TRUE
    /\ pc' = "ended"

\* As Finalize without the res.end().
Finalize_NoEnd(o, detected) ==
    /\ out' = IF detected THEN Append(o, SSEFrame("done", Str(DoneToken), "handler")) ELSE o
    /\ UNCHANGED <<contentType, resEnded>>
    /\ headersSent' = TRUE
    /\ pc' = "ended"

\* After the for-await loop: if (sqlDetected) writeSSE('done', '[DONE]'); res.end()
Finalize(o, detected) ==
    /\ out' = IF detected THEN Append(o, SSEFrame("done", Str(DoneToken), "handler")) ELSE o
    /\ UNCHANGED contentType
    /\ headersSent' = TRUE
    /\ resEnded' = TRUE
    /\ pc' = "ended"

-----------------------------------------------------------------------------
(* POST /api/agent/run                                                      *)

\* The handler up to its first await: configuration check, body check, and the
\* primary request to the agent endpoint.
AgentRun(msgs, user) ==
    /\ pc = "idle"
    /\ route' = "run"
    /\ messages' = msgs
    /\ username' = user
    /\ IF ~snowflakeUrl
       THEN SendJson(500, "Missing SNOWFLAKE_URL") /\ UNCHANGED agentReqs
       ELSE IF MessagesRejected(msgs)
       THEN SendJson(400, "messages required") /\ UNCHANGED agentReqs
       ELSE /\ agentReqs' = Append(agentReqs, createAgentRequestBody(msgs.v))
            /\ pc' = "await_primary"
            /\ UNCHANGED <<resStatus, contentType, resJson, headersSent, resEnded>>
    /\ UNCHANGED <<auth, reqs, snowflakeUrl, statement, out, body, sqlDetected, acc, payload,
                   curEvent, accIdx, stmtReqs, nEvents, nChunks, hist, thrown, outAtThrow>>

\* The primary fetch resolves: status and SSE headers are set (nothing is sent yet).
PrimaryResponse(status) ==
    /\ pc = "await_primary"
    /\ resStatus' = status
    /\ contentType' = "text/event-stream"
    /\ pc' = "relaying"
    /\ UNCHANGED <<auth, reqs, snowflakeUrl, route, messages, username, statement, resJson, headersSent, resEnded,
                   out, body, sqlDetected, acc, payload, curEvent, accIdx, agentReqs,
                   stmtReqs, nEvents, nChunks, hist, thrown, outAtThrow>>

\* The primary fetch rejects.
PrimaryRejects ==
    /\ pc = "await_primary"
    /\ Throw("upstream", "fetch failed")
    /\ UNCHANGED <<auth, reqs, snowflakeUrl, route, messages, username, statement, body, sqlDetected,
                   acc, payload, curEvent, accIdx, agentReqs, stmtReqs, nEvents, nChunks, hist>>

\* One iteration of the for-await loop over the primary stream, up to the next
\* await (the next event, or the statement submission of an interception).
PrimaryEvent(event) ==
    /\ pc = "relaying"
    /\ IsDone(event) \/ nEvents < MaxEvents
    /\ hist' = Append(hist, [src |-> "primary", event |-> event])
    /\ nEvents' = IF IsDone(event) THEN nEvents ELSE nEvents + 1
    /\ LET p    == ParsePayload(event)
           json == extractSQLFromPayload(p)
           kept == Accumulated(p)
       IN  IF IsDone(event)
           THEN \* if (!sqlDetected) writeSSE('done', '[DONE]'); break; then the code after the loop
                /\ Finalize(IF ~sqlDetected
                            THEN Append(out, SSEFrame("done", Str(DoneToken), "handler"))
                            ELSE out, sqlDetected)
                /\ UNCHANGED <<resStatus, resJson, sqlDetected, acc, payload, curEvent, accIdx,
                               stmtReqs, thrown, outAtThrow>>
           ELSE IF shouldSkipEvent(event, p)
           THEN UNCHANGED <<pc, resStatus, contentType, resJson, headersSent, resEnded, out,
                            sqlDetected, acc, payload, curEvent, accIdx, stmtReqs, thrown,
                            outAtThrow>>
           ELSE IF ForEachThrows(p)
           THEN /\ Throw("internal", "payload.delta.content.forEach is not a function")
                /\ UNCHANGED <<sqlDetected, acc, payload, curEvent, accIdx, stmtReqs>>
           ELSE IF Truthy(json.sql)
           THEN /\ sqlDetected' = TRUE
                /\ acc' = acc \o kept
                /\ payload' = p
                /\ curEvent' = event
                /\ accIdx' = Len(acc) + Len(SelectSeq(SubSeq(p.content, 1, 2), NotSqlExec))
                /\ IF Truthy(json.text)
                   THEN /\ out' = Append(out, SSEFrame("message.delta", TextDelta(json.text), "handler"))
                        /\ headersSent' = TRUE
                   ELSE UNCHANGED <<out, headersSent>>
                /\ stmtReqs' = Append(stmtReqs, StmtPayload(TenantSql(username, json.sql)))
                /\ pc' = "await_statement"
                /\ UNCHANGED <<resStatus, contentType, resJson, resEnded, thrown, outAtThrow>>
           ELSE /\ acc' = acc \o kept
                /\ out' = Append(out, SSEFrame(event.event, p, "primary"))
                /\ headersSent' = TRUE
                /\ UNCHANGED <<pc, resStatus, contentType, resJson, resEnded, sqlDetected,
                               payload, curEvent, accIdx, stmtReqs, thrown, outAtThrow>>
    /\ UNCHANGED <<auth, reqs, snowflakeUrl, route, messages, username, statement, body, agentReqs, nChunks>>

\* The primary stream closes without a [DONE] event: the loop ends.
PrimaryEnds ==
    /\ pc = "relaying"
    /\ hist' = Append(hist, [src |-> "primary", event |-> Event(Absent, Data("close", NoPayload))])
    /\ Finalize(out, sqlDetected)
    /\ UNCHANGED <<auth, reqs, snowflakeUrl, route, messages, username, statement, resStatus, resJson, body,
                   sqlDetected, acc, payload, curEvent, accIdx, agentReqs, stmtReqs, nEvents,
                   nChunks, thrown, outAtThrow>>

\* Reading the primary stream fails (the upstream connection drops).
PrimaryFails ==
    /\ pc = "relaying"
    /\ Throw("upstream", "terminated")
    /\ UNCHANGED <<auth, reqs, snowflakeUrl, route, messages, username, statement, body, sqlDetected, acc,
                   payload, curEvent, accIdx, agentReqs, stmtReqs, nEvents, nChunks, hist>>

\* executeSQL returns stmtJson: the handle is selected, table_result and
\* new_assistant_message are written, and streamData2Analytics sends the
\* follow-up request to the agent endpoint.
StatementResponse(stmtJson) ==
    /\ pc = "await_statement"
    /\ hist' = Append(hist, [src |-> "statement", event |-> Event(Absent, Data("json", stmtJson))])
    /\ out' = out \o << SSEFrame("table_result", stmtJson, "handler"),
                        SSEFrame("new_assistant_message", Marker, "handler") >>
    /\ headersSent' = TRUE
    /\ agentReqs' = Append(agentReqs,
                       createAgentRequestBody(
                           Data2AnalyticsMessages(messages.v, acc, SelectHandle(stmtJson))))
    /\ pc' = "await_secondary"
    /\ UNCHANGED <<auth, reqs, snowflakeUrl, route, messages, username, statement, resStatus, contentType, resJson,
                   resEnded, body, sqlDetected, acc, payload, curEvent, accIdx, stmtReqs,
                   nEvents, nChunks, thrown, outAtThrow>>

\* As StatementRejects, but a failed submission is tried again.
StatementRejects_Retries ==
    /\ pc = "await_statement"
    /\ stmtReqs' = Append(stmtReqs, stmtReqs[Len(stmtReqs)])
    /\ UNCHANGED <<auth, reqs, snowflakeUrl, pc, route, messages, username, statement, resStatus, contentType,
                   resJson, headersSent, resEnded, out, body, sqlDetected, acc, payload, curEvent,
                   accIdx, agentReqs, nEvents, nChunks, hist, thrown, outAtThrow>>

\* executeSQL throws: the fetch rejects or the response body is not JSON.
StatementRejects ==
    /\ pc = "await_statement"
    /\ Throw("upstream", "fetch failed")
    /\ UNCHANGED <<auth, reqs, snowflakeUrl, route, messages, username, statement, body, sqlDetected, acc,
                   payload, curEvent, accIdx, agentReqs, stmtReqs, nEvents, nChunks, hist>>

\* As SecondaryResponse, but the handler does not wait for the chainer: the
\* primary loop goes on while the secondary stream is open.
SecondaryResponse_NotAwaited ==
    /\ pc = "await_secondary"
    /\ pc' = "relaying"
    /\ UNCHANGED <<auth, reqs, snowflakeUrl, route, messages, username, statement, resStatus, contentType, resJson,
                   headersSent, resEnded, out, body, sqlDetected, acc, payload, curEvent, accIdx,
                   agentReqs, stmtReqs, nEvents, nChunks, hist, thrown, outAtThrow>>

\* The follow-up fetch of streamData2Analytics resolves.
SecondaryResponse ==
    /\ pc = "await_secondary"
    /\ pc' = "chaining"
    /\ UNCHANGED <<auth, reqs, snowflakeUrl, route, messages, username, statement, resStatus, contentType, resJson,
                   headersSent, resEnded, out, body, sqlDetected, acc, payload, curEvent, accIdx,
                   agentReqs, stmtReqs, nEvents, nChunks, hist, thrown, outAtThrow>>

\* The follow-up fetch of streamData2Analytics rejects.
SecondaryRejects ==
    /\ pc = "await_secondary"
    /\ Throw("upstream", "fetch failed")
    /\ UNCHANGED <<auth, reqs, snowflakeUrl, route, messages, username, statement, body, sqlDetected, acc,
                   payload, curEvent, accIdx, agentReqs, stmtReqs, nEvents, nChunks, hist>>

\* streamData2Analytics has returned: the handler redacts the triggering
\* payload in place (its items are the objects pushed to acc) and goes on to
\* the next primary event.
AfterChaining ==
    /\ payload' = Redact(payload)
    /\ acc' = IF Truthy(extractSQLFromPayload(payload).sql) /\ accIdx > 0
              THEN [acc EXCEPT ![accIdx].sql = "REDACTED"]
              ELSE acc
    /\ pc' = "relaying"

\* One iteration of the for-await loop of streamData2Analytics.
SecondaryEvent(event) ==
    /\ pc = "chaining"
    /\ IsDone(event) \/ nEvents < MaxEvents
    /\ hist' = Append(hist, [src |-> "secondary", event |-> event])
    /\ nEvents' = IF IsDone(event) THEN nEvents ELSE nEvents + 1
    /\ LET p == ParsePayload(event)
       IN  IF IsDone(event)
           THEN AfterChaining /\ UNCHANGED <<out, headersSent>>
           ELSE IF \/ event.event = "execution_trace"
                   \/ p.kind = "delta" /\ p.ctype = "array" /\ Len(p.content) = 0
           THEN UNCHANGED <<pc, out, headersSent, acc, payload>>
           ELSE /\ out' = Append(out, SSEFrame(event.event, p, "secondary"))
                /\ headersSent' = TRUE
                /\ UNCHANGED <<pc, acc, payload>>
    /\ UNCHANGED <<auth, reqs, snowflakeUrl, route, messages, username, statement, resStatus, contentType, resJson,
                   resEnded, body, sqlDetected, curEvent, accIdx, agentReqs, stmtReqs, nChunks,
                   thrown, outAtThrow>>

\* The secondary stream closes without a [DONE] event.
SecondaryEnds ==
    /\ pc = "chaining"
    /\ hist' = Append(hist, [src |-> "secondary", event |-> Event(Absent, Data("close", NoPayload))])
    /\ AfterChaining
    /\ UNCHANGED <<auth, reqs, snowflakeUrl, route, messages, username, statement, resStatus, contentType, resJson,
                   headersSent, resEnded, out, body, sqlDetected, curEvent, accIdx, agentReqs,
                   stmtReqs, nEvents, nChunks, thrown, outAtThrow>>

\* Reading the secondary stream fails.
SecondaryFails ==
    /\ pc = "chaining"
    /\ Throw("upstream", "terminated")
    /\ UNCHANGED <<auth, reqs, snowflakeUrl, route, messages, username, statement, body, sqlDetected, acc,
                   payload, curEvent, accIdx, agentReqs, stmtReqs, nEvents, nChunks, hist>>

-----------------------------------------------------------------------------
(* POST /api/statements                                                     *)

\* The handler up to its await: configuration check, body check, submission.
Statements(stmt) ==
    /\ pc = "idle"
    /\ route' = "statements"
    /\ statement' = stmt
    /\ IF ~snowflakeUrl
       THEN SendJson(500, "Missing SNOWFLAKE_URL") /\ UNCHANGED stmtReqs
       ELSE IF StatementRejected(stmt)
       THEN SendJson(400, "statement required") /\ UNCHANGED stmtReqs
       ELSE /\ stmtReqs' = Append(stmtReqs, StmtPayload(stmt.chars))
            /\ pc' = "await_proxy"
            /\ UNCHANGED <<resStatus, contentType, resJson, headersSent, resEnded>>
    /\ UNCHANGED <<auth, reqs, snowflakeUrl, messages, username, out, body, sqlDetected, acc,
                   payload, curEvent, accIdx, agentReqs, nEvents, nChunks, hist, thrown,
                   outAtThrow>>

\* The submission resolves: status and content type are copied.
ProxyResponse(status, ctype) ==
    /\ pc = "await_proxy"
    /\ hist' = Append(hist, [src |-> "proxy", event |-> Event(Absent, Data("head", ResponseHead(status, ctype)))])
    /\ resStatus' = status
    /\ contentType' = IF ctype = Absent THEN "application/json" ELSE ctype
    /\ pc' = "proxy_body"
    /\ UNCHANGED <<auth, reqs, snowflakeUrl, route, messages, username, statement, resJson, headersSent, resEnded, out,
                   body, sqlDetected, acc, payload, curEvent, accIdx, agentReqs, stmtReqs,
                   nEvents, nChunks, thrown, outAtThrow>>

\* As ProxyChunk, but the chunk is written in front of the body so far.
ProxyChunk_Prepends(chunk) ==
    /\ pc = "proxy_body"
    /\ nChunks < MaxChunks
    /\ nChunks' = nChunks + 1
    /\ hist' = Append(hist, [src |-> "proxy", event |-> Event(Absent, Data("chunk", Chunk(chunk)))])
    /\ body' = <<chunk>> \o body
    /\ headersSent' = TRUE
    /\ UNCHANGED <<auth, reqs, snowflakeUrl, pc, route, messages, username, statement, resStatus, contentType, resJson,
                   resEnded, out, sqlDetected, acc, payload, curEvent, accIdx, agentReqs,
                   stmtReqs, nEvents, thrown, outAtThrow>>

\* for await (const chunk of response.body) res.write(chunk)
ProxyChunk(chunk) ==
    /\ pc = "proxy_body"
    /\ nChunks < MaxChunks
    /\ nChunks' = nChunks + 1
    /\ hist' = Append(hist, [src |-> "proxy", event |-> Event(Absent, Data("chunk", Chunk(chunk)))])
    /\ body' = Append(body, chunk)
    /\ headersSent' = TRUE
    /\ UNCHANGED <<auth, reqs, snowflakeUrl, pc, route, messages, username, statement, resStatus, contentType, resJson,
                   resEnded, out, sqlDetected, acc, payload, curEvent, accIdx, agentReqs,
                   stmtReqs, nEvents, thrown, outAtThrow>>

\* The body is exhausted (or there was none): res.end()
ProxyEnds ==
    /\ pc = "proxy_body"
    /\ headersSent' = TRUE
    /\ resEnded' = TRUE
    /\ pc' = "ended"
    /\ UNCHANGED <<auth, reqs, snowflakeUrl, route, messages, username, statement, resStatus, contentType, resJson, out,
                   body, sqlDetected, acc, payload, curEvent, accIdx, agentReqs, stmtReqs,
                   nEvents, nChunks, hist, thrown, outAtThrow>>

\* The catch block of app.post('/api/statements'): res.status(500).json(...).
\* Once a chunk has been written the headers are sent and json() cannot send
\* another response: nothing more reaches the client and end() is never called.
ProxyCatch(msg) ==
    IF headersSent
    THEN /\ pc' = "ended"
         /\ UNCHANGED <<resStatus, contentType, resJson, headersSent, resEnded>>
    ELSE SendJson(500, msg)

\* The submission rejects, or reading its body fails.
ProxyFails ==
    /\ pc \in {"await_proxy", "proxy_body"}
    /\ thrown' = "upstream"
    /\ ProxyCatch("fetch failed")
    /\ UNCHANGED <<auth, reqs, snowflakeUrl, route, messages, username, statement, out, body, sqlDetected,
                   acc, payload, curEvent, accIdx, agentReqs, stmtReqs, nEvents, nChunks, hist,
                   outAtThrow>>

-----------------------------------------------------------------------------
(* The session: /auth/login, /auth/logout and the frontend middleware       *)

\* maxAge of the login cookie: 7 * 24 * 60 * 60 * 1000 ms.
LoginMaxAge == 604800000

\* req.body.username and req.body.password of a login: missing, empty, or a
\* string (one of the names needs escaping in a cookie value).
LoginUsernames == {Absent, "", "Alice", "Bob Lee"}

LoginPasswords == {Absent, "", "pw"}

\* encodeURIComponent on the login names.
encodeURIComponent(s) == IF s = "Bob Lee" THEN "Bob%20Lee" ELSE s

\* What response.json() of the user lookup resolves to: null, an object
\* without data, or an object whose data holds 0, 1 or 2 rows.
LookupResult(kind, hasData, rows) == [kind |-> kind, hasData |-> hasData, rows |-> rows]

LookupResults ==
    { LookupResult("null", FALSE, 0), LookupResult("object", FALSE, 0) }
    \cup { LookupResult("object", TRUE, n) : n \in 0..2 }

\* As UserFound, but any non-empty result counts.
UserFound_AnyRow(result) == result.hasData /\ result.rows >= 1

\* result.data && result.data.length === 1
UserFound(result) == result.hasData /\ result.rows = 1

\* A Set-Cookie header for demo_username written by res.cookie, or none.
SetCookie(value, maxAge) == [set |-> TRUE, value |-> value, maxAge |-> maxAge]

NoSetCookie == [set |-> FALSE, value |-> Absent, maxAge |-> 0]

\* The browser's cookie after a response: a Set-Cookie whose Max-Age is not
\* positive removes the cookie, any other replaces it.
StoreCookie(jar, sc) ==
    IF ~sc.set THEN jar
    ELSE IF sc.maxAge <= 0 THEN Absent
    ELSE sc.value

\* Request paths, as their characters.
Pathnames ==
    { <<"/">>,
      <<"/", "c">>,
      <<"/", "l", "o", "g", "i", "n">>,
      <<"/", "l", "o", "g", "i", "n", "/", "x">>,
      <<"/", "a", "p", "i", "/", "r">>,
      <<"/", "_", "n", "e", "x", "t", "/", "s">>,
      <<"/", "f", "a", "v", "i", "c", "o", "n", ".", "i", "c", "o">> }

\* pathname.startsWith(prefix)
StartsWith(pathname, prefix) ==
    Len(pathname) >= Len(prefix) /\ SubSeq(pathname, 1, Len(prefix)) = prefix

\* The paths the middleware lets through without looking at the cookie.
Exempt(pathname) ==
    \/ StartsWith(pathname, <<"/", "a", "p", "i">>)
    \/ StartsWith(pathname, <<"/", "_", "n", "e", "x", "t">>)
    \/ StartsWith(pathname, <<"/", "f", "a", "v", "i", "c", "o", "n">>)
    \/ pathname = <<"/", "l", "o", "g", "i", "n">>

\* middleware(request): "next", or "redirect" (to /login).
middleware(pathname, jar) ==
    IF Exempt(pathname) THEN "next"
    ELSE IF ~Truthy(jar) THEN "redirect"
    ELSE "next"

NoLookup == LookupResult("none", FALSE, 0)

\* The last response of the session protocol; lookup is the lookup result
\* the login handler answered on (history).
AuthRes(r, status, sc, pathname, outcome, lookup) ==
    [route |-> r, status |-> status, setCookie |-> sc, pathname |-> pathname,
     outcome |-> outcome, lookup |-> lookup]

NoAuthRes == AuthRes("none", 0, NoSetCookie, <<>>, "none", NoLookup)

NoLogin == [username |-> Absent, password |-> Absent]

\* POST /auth/login up to the lookup: missing credentials are answered 401.
Login(u, p) ==
    /\ authPc = "idle"
    /\ IF ~Truthy(u) \/ ~Truthy(p)
       THEN /\ authRes' = AuthRes("login", 401, NoSetCookie, <<>>, "none", NoLookup)
            /\ UNCHANGED <<authPc, loginBody>>
       ELSE /\ authPc' = "await_lookup"
            /\ loginBody' = [username |-> u, password |-> p]
            /\ UNCHANGED authRes
    /\ UNCHANGED <<cookie, single, reqs>>

\* The lookup answers: one row sets the cookie, anything else is a 401; a
\* null result makes result.data throw, which the catch answers with 500.
LookupResponse(result) ==
    /\ authPc = "await_lookup"
    /\ authPc' = "idle"
    /\ loginBody' = NoLogin
    /\ LET sc == IF result.kind # "null" /\ UserFound(result)
                 THEN SetCookie(encodeURIComponent(loginBody.username), LoginMaxAge)
                 ELSE NoSetCookie
           status == IF result.kind = "null" THEN 500
                     ELSE IF UserFound(result) THEN 200 ELSE 401
       IN  /\ authRes' = AuthRes("login", status, sc, <<>>, "none", result)
           /\ cookie' = StoreCookie(cookie, sc)
    /\ UNCHANGED <<single, reqs>>

\* The lookup's fetch rejects, or its body is not JSON.
LookupFails ==
    /\ authPc = "await_lookup"
    /\ authPc' = "idle"
    /\ loginBody' = NoLogin
    /\ authRes' = AuthRes("login", 500, NoSetCookie, <<>>, "none", NoLookup)
    /\ UNCHANGED <<cookie, single, reqs>>

\* POST /auth/logout
Logout ==
    /\ authRes' = AuthRes("logout", 200, SetCookie("", 0), <<>>, "none", NoLookup)
    /\ cookie' = StoreCookie(cookie, SetCookie("", 0))
    /\ UNCHANGED <<authPc, loginBody, single, reqs>>

\* A request of the browser passes through the frontend middleware.
PageRequest(pathname) ==
    /\ authRes' = AuthRes("page", 0, NoSetCookie, pathname, middleware(pathname, cookie), NoLookup)
    /\ UNCHANGED <<cookie, authPc, loginBody, single, reqs>>

-----------------------------------------------------------------------------
(* The system                                                               *)

Init ==
    /\ snowflakeUrl \in BOOLEAN
    /\ pc = "idle"
    /\ route = "none"
    /\ messages = Messages("undefined", <<>>)
    /\ username = ""
    /\ statement = [type |-> "undefined", chars |-> <<>>]
    /\ resStatus = 0
    /\ contentType = Absent
    /\ resJson = NoBody
    /\ headersSent = FALSE
    /\ resEnded = FALSE
    /\ out = <<>>
    /\ body = <<>>
    /\ sqlDetected = FALSE
    /\ acc = <<>>
    /\ payload = NoPayload
    /\ curEvent = NoEvent
    /\ accIdx = 0
    /\ agentReqs = <<>>
    /\ stmtReqs = <<>>
    /\ nEvents = 0
    /\ nChunks = 0
    /\ hist = <<>>
    /\ thrown = "none"
    /\ outAtThrow = <<>>
    /\ reqs = [r \in Requests |-> IdleReq]
    /\ cookie = Absent
    /\ authPc = "idle"
    /\ loginBody = NoLogin
    /\ authRes = NoAuthRes

Next ==
    \/ \E msgs \in MessagesInputs, user \in Usernames : AgentRun(msgs, user)
    \/ \E status \in AgentStatuses : PrimaryResponse(status)
    \/ PrimaryRejects
    \/ \E event \in PrimaryEvents \cup {DoneEvent} : PrimaryEvent(event)
    \/ PrimaryEnds
    \/ PrimaryFails
    \/ \E stmtJson \in StmtResponses : StatementResponse(stmtJson)
    \/ StatementRejects
    \/ SecondaryResponse
    \/ SecondaryRejects
    \/ \E event \in SecondaryEvents \cup {DoneEvent} : SecondaryEvent(event)
    \/ SecondaryEnds
    \/ SecondaryFails
    \/ \E stmt \in StatementInputs : Statements(stmt)
    \/ \E status \in UpstreamStatuses, ctype \in {Absent, "text/plain"} : ProxyResponse(status, ctype)
    \/ \E chunk \in Chunks : ProxyChunk(chunk)
    \/ ProxyEnds
    \/ ProxyFails

Spec == Init /\ [][Next]_vars

\* One primary event of each class (dropped, forwarded, triggering, raising)
\* and one secondary event: what progress depends on.
LivePrimaryEvents ==
    { Event("execution_trace", Data("empty", Str(""))),
      Event("message.delta", Data("json", PToolUse)),
      Event("message.delta", Data("json", PSqlWithText)),
      Event("message.delta", Data("json", PNotArray)) }

LiveSecondaryEvents == { Event("message.delta", Data("json", PText)) }

\* The client closes its connection while the handler is running.  The
\* handler registers no listener on req or res and passes no abort signal to
\* fetch, so nothing of its state changes; the history notes the disconnect.
ClientDisconnects ==
    /\ route = "run"
    /\ pc # "ended"
    /\ \A i \in 1..Len(hist) : hist[i].src # "client"
    /\ hist' = Append(hist, [src |-> "client", event |-> Event(Absent, Data("close", NoPayload))])
    /\ UNCHANGED <<auth, reqs, snowflakeUrl, pc, route, messages, username, statement, resStatus, contentType,
                   resJson, headersSent, resEnded, out, body, sqlDetected, acc, payload, curEvent,
                   accIdx, agentReqs, stmtReqs, nEvents, nChunks, thrown, outAtThrow>>

\* The steps of a /api/agent/run request.
LiveNext ==
    \/ \E msgs \in MessagesInputs, user \in Usernames : AgentRun(msgs, user)
    \/ \E status \in AgentStatuses : PrimaryResponse(status)
    \/ PrimaryRejects
    \/ \E event \in LivePrimaryEvents \cup {DoneEvent} : PrimaryEvent(event)
    \/ PrimaryEnds
    \/ PrimaryFails
    \/ \E stmtJson \in StmtResponses : StatementResponse(stmtJson)
    \/ StatementRejects
    \/ SecondaryResponse
    \/ SecondaryRejects
    \/ \E event \in LiveSecondaryEvents \cup {DoneEvent} : SecondaryEvent(event)
    \/ SecondaryEnds
    \/ SecondaryFails

\* The request with progress: every upstream call returns or fails, every
\* upstream stream delivers its next event, ends or fails, and the handler's
\* continuation then runs.
LiveSpec == Init /\ [][LiveNext]_vars /\ WF_vars(LiveNext)

\* The request and its client, which may disconnect at any moment.
DisconnectNext ==
    \/ LiveNext
    \/ ClientDisconnects

DisconnectSpec == Init /\ [][DisconnectNext]_vars

-----------------------------------------------------------------------------
(* Several POST /api/agent/run requests in flight                           *)
(*                                                                          *)
(* Node runs one handler at a time up to its next await, so each action is  *)
(* the step of one request r between two awaits and the steps of different  *)
(* requests interleave freely.  reqs[r] holds what the handler invocation   *)
(* of r declares (sqlDetected, assistantMessageContent, statementHandle,    *)
(* writeSSE over its own res) and what it has sent.                         *)

\* As Push, but assistantMessageContent is one array shared by all handlers.
Push_Shared(all, r, items) ==
    [q \in Requests |-> [all[q] EXCEPT !.acc = @ \o items]]

\* assistantMessageContent.push(contentItem) on the array of r's invocation
Push(all, r, items) == [all EXCEPT ![r].acc = @ \o items]

AgentRunOf(r) ==
    /\ reqs[r].pc = "idle"
    /\ reqs' = [reqs EXCEPT ![r].pc = "await_primary",
                            ![r].messages = MessagesOf(r),
                            ![r].username = r,
                            ![r].sent = << createAgentRequestBody(MessagesOf(r)) >>]
    /\ UNCHANGED <<single, auth>>

PrimaryResponseOf(r) ==
    /\ reqs[r].pc = "await_primary"
    /\ reqs' = [reqs EXCEPT ![r].pc = "relaying"]
    /\ UNCHANGED <<single, auth>>

PrimaryEventOf(r, event) ==
    /\ reqs[r].pc = "relaying"
    /\ IsDone(event) \/ reqs[r].n < MaxEvents
    /\ LET st   == reqs[r]
           p    == ParsePayload(event)
           json == extractSQLFromPayload(p)
           kept == Accumulated(p)
       IN  IF IsDone(event)
           THEN reqs' = [reqs EXCEPT ![r].out = Append(@, SSEFrame("done", Str(DoneToken), "handler")),
                                     ![r].pc = "ended"]
           ELSE IF shouldSkipEvent(event, p)
           THEN reqs' = [reqs EXCEPT ![r].n = @ + 1]
           ELSE IF ForEachThrows(p)
           THEN reqs' = [reqs EXCEPT ![r].n = @ + 1,
                                     ![r].pc = "ended",
                                     ![r].out = IF st.out # <<>>
                                                THEN Append(@, SSEFrame("error", ErrorBody("forEach"), "handler"))
                                                ELSE @,
                                     ![r].resJson = IF st.out # <<>> THEN @ ELSE ErrorBody("forEach")]
           ELSE IF Truthy(json.sql)
           THEN reqs' = [Push(reqs, r, kept) EXCEPT
                            ![r].n = @ + 1,
                            ![r].sqlDetected = TRUE,
                            ![r].payload = p,
                            ![r].accIdx = Len(st.acc) + Len(SelectSeq(SubSeq(p.content, 1, 2), NotSqlExec)),
                            ![r].out = IF Truthy(json.text)
                                       THEN Append(@, SSEFrame("message.delta", TextDelta(json.text), "handler"))
                                       ELSE @,
                            ![r].stmts = Append(@, StmtPayload(TenantSql(st.username, json.sql))),
                            ![r].pc = "await_statement"]
           ELSE reqs' = [Push(reqs, r, kept) EXCEPT
                            ![r].n = @ + 1,
                            ![r].out = Append(@, SSEFrame(event.event, p, "primary"))]
    /\ UNCHANGED <<single, auth>>

StatementResponseOf(r, stmtJson) ==
    /\ reqs[r].pc = "await_statement"
    /\ reqs' = [reqs EXCEPT
                  ![r].statementHandle = SelectHandle(stmtJson),
                  ![r].out = @ \o << SSEFrame("table_result", stmtJson, "handler"),
                                     SSEFrame("new_assistant_message", Marker, "handler") >>,
                  ![r].sent = Append(@, createAgentRequestBody(
                                            Data2AnalyticsMessages(reqs[r].messages, reqs[r].acc,
                                                                   SelectHandle(stmtJson)))),
                  ![r].pc = "await_secondary"]
    /\ UNCHANGED <<single, auth>>

SecondaryResponseOf(r) ==
    /\ reqs[r].pc = "await_secondary"
    /\ reqs' = [reqs EXCEPT ![r].pc = "chaining"]
    /\ UNCHANGED <<single, auth>>

SecondaryEventOf(r, event) ==
    /\ reqs[r].pc = "chaining"
    /\ IsDone(event) \/ reqs[r].n < MaxEvents
    /\ LET st == reqs[r]
           p  == ParsePayload(event)
       IN  IF IsDone(event)
           THEN reqs' = [reqs EXCEPT
                           ![r].payload = Redact(@),
                           ![r].acc = IF Truthy(extractSQLFromPayload(st.payload).sql) /\ st.accIdx > 0
                                      THEN [@ EXCEPT ![st.accIdx].sql = "REDACTED"]
                                      ELSE @,
                           ![r].pc = "relaying"]
           ELSE IF \/ event.event = "execution_trace"
                   \/ p.kind = "delta" /\ p.ctype = "array" /\ Len(p.content) = 0
           THEN reqs' = [reqs EXCEPT ![r].n = @ + 1]
           ELSE reqs' = [reqs EXCEPT ![r].n = @ + 1,
                                     ![r].out = Append(@, SSEFrame(event.event, p, "secondary"))]
    /\ UNCHANGED <<single, auth>>

\* An await of r's handler rejects: the catch block, on r's own res.
FailsOf(r) ==
    /\ reqs[r].pc \in {"await_primary", "relaying", "await_statement", "await_secondary", "chaining"}
    /\ reqs' = [reqs EXCEPT
                  ![r].out = IF reqs[r].out # <<>>
                             THEN Append(@, SSEFrame("error", ErrorBody("fetch failed"), "handler"))
                             ELSE @,
                  ![r].resJson = IF reqs[r].out # <<>> THEN @ ELSE ErrorBody("fetch failed"),
                  ![r].pc = "ended"]
    /\ UNCHANGED <<single, auth>>

ConcInit == Init /\ snowflakeUrl

ConcNext ==
    \/ \E r \in Requests : AgentRunOf(r)
    \/ \E r \in Requests : PrimaryResponseOf(r)
    \/ \E r \in Requests : \E event \in PrimaryEventsOf(r) \cup {DoneEvent} : PrimaryEventOf(r, event)
    \/ \E r \in Requests : StatementResponseOf(r, StmtResponseOf(r))
    \/ \E r \in Requests : SecondaryResponseOf(r)
    \/ \E r \in Requests : \E event \in SecondaryEventsOf(r) \cup {DoneEvent} : SecondaryEventOf(r, event)
    \/ \E r \in Requests : FailsOf(r)

ConcSpec == ConcInit /\ [][ConcNext]_vars

-----------------------------------------------------------------------------
(* The chat client (useAgentAPIQuery.ts)                                    *)

\* enum AgentApiState
IDLE == "idle"

LOADING == "loading"

STREAMING == "streaming"

\* parsed?.delta?.content || []
contentArray(parsed) ==
    IF parsed.kind = "delta" /\ parsed.ctype = "array" THEN parsed.content ELSE <<>>

\* The for-await loop of handleNewMessage over the events of the response,
\* as the agentState it leaves: table_result and new_assistant_message are
\* passed over, data [DONE] sets IDLE and returns, a first content item that
\* is a tool_use other than search1 sets STREAMING.  A delta.content that is
\* not an array makes forEach throw, which ends the function as it stands.
RECURSIVE StreamLoop(_, _)
StreamLoop(frames, agentState) ==
    IF frames = <<>> THEN agentState
    ELSE LET event  == Head(frames)
             parsed == event.data.value
             first  == contentArray(parsed)[1]
         IN  IF event.event \in {"table_result", "new_assistant_message"}
             THEN StreamLoop(Tail(frames), agentState)
             ELSE IF event.data.enc = "literal"
             THEN IDLE
             ELSE IF parsed.kind = "delta" /\ parsed.ctype = "other"
             THEN agentState
             ELSE IF /\ contentArray(parsed) # <<>>
                     /\ first.type = "tool_use"
                     /\ first.name # "search1"
             THEN StreamLoop(Tail(frames), STREAMING)
             ELSE StreamLoop(Tail(frames), agentState)

\* handleNewMessage on a response whose event stream is frames (none when
\* the body is not an event stream): setAgentState(LOADING), then the loop.
handleNewMessage(frames) == StreamLoop(frames, LOADING)

\* A chat message {id, role, content}.  content of an assistant message is
\* kept as the list of append calls made on it, in order.
AgentMessage(id, role, content) == [id |-> id, role |-> role, content |-> content]

\* The message lists a query can start from: an empty chat, or a chat holding
\* an earlier question and its answer.
ChatHistories ==
    { <<>>,
      << AgentMessage("u0", "user", <<TextItem("q0")>>),
         AgentMessage("a0", "assistant", <<[call |-> "appendText", arg |-> "old"]>>) >> }

\* prevMessages.findLastIndex(message => message.role === USER), counted from
\* one: 0 when there is no user message.
LastUserIndex(prevMessages) ==
    LET idx == {i \in 1..Len(prevMessages) : prevMessages[i].role = "user"}
    IN  IF idx = {} THEN 0 ELSE CHOOSE i \in idx : \A j \in idx : j <= i

\* As updateMessagesAfterLastUser, but the message is added at the end of the
\* list as it stands.
updateMessagesAfterLastUser_Appends(currentMessage, prevMessages) ==
    Append(prevMessages, currentMessage)

\* updateMessagesAfterLastUser(currentMessage)(prevMessages)
updateMessagesAfterLastUser(currentMessage, prevMessages) ==
    Append(SubSeq(prevMessages, 1, LastUserIndex(prevMessages)), currentMessage)

\* processContentItem(currentMessage, contentItem): the append call the item's
\* kind selects (text, tool_use, tool_results), made on the message.
processContentItem(currentMessage, contentItem) ==
    LET call == IF contentItem.type = "text"
                THEN [call |-> "appendText", arg |-> contentItem.text]
                ELSE [call |-> "appendToolResponse", arg |-> contentItem]
    IN  [currentMessage EXCEPT !.content = Append(@, call)]

RECURSIVE ForEachContent(_, _)
ForEachContent(currentMessage, items) ==
    IF items = <<>> THEN currentMessage
    ELSE ForEachContent(processContentItem(currentMessage, Head(items)), Tail(items))

\* handleNewMessage up to the stream loop: the user message is pushed on a
\* copy of the list, agentState is LOADING, and the response's one assistant
\* message is created empty under a fresh id.  status is where the function
\* is: "running" (in the loop), "returned", or "threw".
StartQuery(prevMessages) ==
    [ agentState       |-> LOADING,
      messages         |-> Append(prevMessages,
                                  AgentMessage("u1", "user", <<TextItem("q1")>>)),
      assistantMessage |-> AgentMessage("a1", "assistant", <<>>),
      status           |-> "running" ]

\* One iteration of the for-await loop on the client state c.
ProcessEvent(c, event) ==
    LET parsed   == event.data.value
        appended == [c.assistantMessage EXCEPT
                        !.content = Append(@, [call |-> "appendFetchedTable",
                                               arg  |-> parsed])]
        filled   == ForEachContent(c.assistantMessage, contentArray(parsed))
        first    == contentArray(parsed)[1]
    IN  IF c.status # "running" THEN c
        ELSE IF event.event = "table_result"
        THEN IF event.data.enc = "literal" THEN c
             ELSE [c EXCEPT !.assistantMessage = appended,
                            !.messages = updateMessagesAfterLastUser(appended, @)]
        ELSE IF event.event = "new_assistant_message"
        THEN c
        ELSE IF event.data.enc = "literal"
        THEN [c EXCEPT !.agentState = IDLE, !.status = "returned"]
        ELSE IF parsed.kind = "delta" /\ parsed.ctype = "other"
        THEN [c EXCEPT !.status = "threw"]
        ELSE [c EXCEPT !.assistantMessage = filled,
                       !.messages = updateMessagesAfterLastUser(filled, @),
                       !.agentState = IF /\ contentArray(parsed) # <<>>
                                         /\ first.type = "tool_use"
                                         /\ first.name # "search1"
                                      THEN STREAMING ELSE @]

\* The client state after the events of frames, in order, starting from c.
RECURSIVE ProcessEvents(_, _)
ProcessEvents(c, frames) ==
    IF frames = <<>> THEN c
    ELSE ProcessEvents(ProcessEvent(c, Head(frames)), Tail(frames))

\* The client states after each event of frames, in order, starting from c.
RECURSIVE StatesAfter(_, _)
StatesAfter(c, frames) ==
    IF frames = <<>> THEN <<>>
    ELSE LET next == ProcessEvent(c, Head(frames))
         IN  <<next>> \o StatesAfter(next, Tail(frames))

\* The client state after the first k events of the response, for a query
\* asked on the message list prevMessages.
ClientAfter(prevMessages, k) ==
    ProcessEvents(StartQuery(prevMessages), SubSeq(out, 1, k))

-----------------------------------------------------------------------------
(* Properties                                                               *)

IsTerminal(f) == f.src = "handler" /\ f.event \in {"done", "error"}

IsNotTerminal(f) == ~IsTerminal(f)

\* The decoded payload of a history entry's event.
Decoded(h) == ParsePayload(h.event)

\* The entry is an upstream event with content (not [DONE], not a close).
IsContentEntry(h) ==
    h.src \in {"primary", "secondary"} /\ h.event.data.enc \notin {"done", "close"}

\* Drop class: named execution_trace, or delta.content is an empty array.
DropClass(h) ==
    \/ h.event.event = "execution_trace"
    \/ /\ Decoded(h).kind = "delta"
       /\ Decoded(h).ctype = "array"
       /\ Decoded(h).content = <<>>

\* A primary event that triggers interception: a tool_results item at index 1
\* of delta.content carries a non-empty sql.
IsTrigger(h) ==
    /\ h.src = "primary"
    /\ IsContentEntry(h)
    /\ ~DropClass(h)
    /\ Decoded(h).kind = "delta"
    /\ Decoded(h).ctype = "array"
    /\ Len(Decoded(h).content) >= 2
    /\ Decoded(h).content[2].type = "tool_results"
    /\ Truthy(Decoded(h).content[2].sql)

Triggers == {i \in 1..Len(hist) : IsTrigger(hist[i])}

FirstTrigger == CHOOSE i \in Triggers : \A j \in Triggers : i <= j

\* The frame a relayed upstream event is written as.
RelayFrame(h) == SSEFrame(h.event.event, Decoded(h), h.src)

\* The frames of an interception up to the follow-up request.
TextFrames(h) ==
    IF Truthy(Decoded(h).content[2].text)
    THEN << SSEFrame("message.delta", TextDelta(Decoded(h).content[2].text), "handler") >>
    ELSE <<>>

TableFrames(h) ==
    << SSEFrame("table_result", h.event.data.v, "handler"),
       SSEFrame("new_assistant_message", Marker, "handler") >>

\* What the consumed entries put on the outbound stream, entry by entry: a
\* dropped event nothing, a forwarded event its frame, a trigger and its
\* statement response the interception block.
BlockOf(h) ==
    IF h.src = "statement" THEN TableFrames(h)
    ELSE IF ~IsContentEntry(h) \/ DropClass(h) THEN <<>>
    ELSE IF IsTrigger(h) THEN TextFrames(h)
    ELSE << RelayFrame(h) >>

RECURSIVE ExpectedOut(_)
ExpectedOut(h) == IF h = <<>> THEN <<>> ELSE BlockOf(Head(h)) \o ExpectedOut(Tail(h))

\* The handler ran to its end without an exception.
EndedNormally == route = "run" /\ pc = "ended" /\ thrown = "none" /\ resJson = NoBody

\* A written payload shows SQL text: some tool_results item has a sql that is
\* neither absent nor 'REDACTED'.
ExposesSql(f) ==
    /\ f.data.value.kind = "delta"
    /\ f.data.value.ctype = "array"
    /\ \E i \in 1..Len(f.data.value.content) :
          /\ f.data.value.content[i].type = "tool_results"
          /\ Truthy(f.data.value.content[i].sql)
          /\ f.data.value.content[i].sql # "REDACTED"

\* C1: once the outbound stream of a /api/agent/run request has begun, the
\* finished response holds exactly one terminal event (one done or one error).
C1_ExactlyOneTerminal ==
    (route = "run" /\ pc = "ended" /\ out # <<>>) => Len(SelectSeq(out, IsTerminal)) = 1

\* C2: no frame written to the client carries a tool_results item with the
\* SQL text, from whichever stream and at whichever index of delta.content.
C2_SqlNeverExposed == \A i \in 1..Len(out) : ~ExposesSql(out[i])

\* The secondary-stream entries of the first interception.
FirstSecondary ==
    LET later == {i \in 1..Len(hist) : i > FirstTrigger /\ hist[i].src = "primary"}
        stop  == IF later = {} THEN Len(hist) + 1
                 ELSE CHOOSE i \in later : \A j \in later : i <= j
    IN  SelectSeq(SubSeq(hist, FirstTrigger + 1, stop - 1),
                  LAMBDA h : h.src = "secondary")

FirstStatement ==
    SelectSeq(SubSeq(hist, FirstTrigger + 1, Len(hist)), LAMBDA h : h.src = "statement")

\* C3: when SQL is detected, the frames from that point on are exactly the
\* optional text delta, table_result, new_assistant_message, the redacted
\* triggering payload, the forwarded secondary events in order, then done.
C3_InterceptionOrdering ==
    (EndedNormally /\ Triggers # {}) =>
        out = ExpectedOut(SubSeq(hist, 1, FirstTrigger - 1))
              \o TextFrames(hist[FirstTrigger])
              \o TableFrames(FirstStatement[1])
              \o << SSEFrame(hist[FirstTrigger].event.event,
                             Redact(Decoded(hist[FirstTrigger])), "primary") >>
              \o ExpectedOut(FirstSecondary)
              \o << SSEFrame("done", Str(DoneToken), "handler") >>

\* C4: the payload that triggers interception is forwarded with its sql
\* replaced by 'REDACTED' and everything else as received; a payload without
\* that path is left unchanged by redaction.
C4_RedactedShellForwarded ==
    /\ EndedNormally =>
          \A k \in Triggers :
              \E i \in 1..Len(out) :
                  /\ out[i].event = hist[k].event.event
                  /\ out[i].data.value = Redact(Decoded(hist[k]))
    /\ \A h \in {[src |-> "primary", event |-> e] : e \in PrimaryEvents} :
          ~IsTrigger(h) => Redact(Decoded(h)) = Decoded(h)

\* C5: in both streams a dropped-class event is never written, every other
\* consumed non-SQL event is written exactly once, in the order received,
\* and the interception block sits at the position of the triggering event.
C5_DropAndOrder ==
    route = "run" => SelectSeq(out, IsNotTerminal) = ExpectedOut(hist)

\* C6: once the chained secondary stream has been relayed, no payload of the
\* primary stream is written any more.
C6_DrainingPrimary ==
    \A i \in 1..Len(out) : \A j \in 1..Len(out) :
        (i < j /\ out[i].event = "new_assistant_message" /\ out[i].src = "handler")
            => out[j].src # "primary"

\* C7: an upstream failure after the outbound stream has begun makes the
\* handler write exactly one error event {error: message}, nothing after it
\* (no done), and end the response.
C7_ErrorAfterStreamBegun ==
    (route = "run" /\ thrown = "upstream" /\ outAtThrow # <<>>) =>
        /\ pc = "ended"
        /\ resEnded
        /\ resJson = NoBody
        /\ Len(out) = Len(outAtThrow) + 1
        /\ SubSeq(out, 1, Len(outAtThrow)) = outAtThrow
        /\ out[Len(out)].event = "error"
        /\ out[Len(out)].data.enc = "json"
        /\ out[Len(out)].data.value.kind = "error"
        /\ Truthy(out[Len(out)].data.value.error)
        /\ Len(SelectSeq(out, IsTerminal)) = 1

\* A secondary stream failed mid-way after frames had been written.
C7_Witness ==
    /\ route = "run"
    /\ thrown = "upstream"
    /\ Len(outAtThrow) >= 3
    /\ hist # <<>>
    /\ hist[Len(hist)].src = "secondary"
    /\ pc = "ended"

C9_Original ==
    (route = "run" /\ messages.type # "array") =>
        /\ resStatus = 400
        /\ agentReqs = <<>>
        /\ out = <<>>
        /\ contentType # "text/event-stream"

\* C9 amended: non-array messages give 400 when SNOWFLAKE_URL is set and 500
\* when it is not; either way no upstream request is made and no stream opened.
C9_BadMessagesRejected ==
    (route = "run" /\ messages.type # "array") =>
        /\ resStatus = IF snowflakeUrl THEN 400 ELSE 500
        /\ resJson.kind = "error"
        /\ resEnded
        /\ agentReqs = <<>>
        /\ stmtReqs = <<>>
        /\ out = <<>>
        /\ contentType # "text/event-stream"

C9_Witness ==
    route = "run" /\ messages.type = "string" /\ resStatus = 400 /\ resEnded

\* The statement is missing, not a string, empty or whitespace-only.
IsBlank(stmt) ==
    stmt.type # "string" \/ \A i \in 1..Len(stmt.chars) : stmt.chars[i] = " "

\* C10 as stated: a missing or blank statement gives 400 and nothing is
\* submitted to the statement endpoint.
C10_Original ==
    (route = "statements" /\ IsBlank(statement)) =>
        /\ resStatus = 400
        /\ stmtReqs = <<>>

\* C10 amended: a missing or blank statement gives 400 when SNOWFLAKE_URL is
\* set and 500 when it is not; either way nothing is submitted.
C10_BlankStatementRejected ==
    (route = "statements" /\ IsBlank(statement)) =>
        /\ resStatus = IF snowflakeUrl THEN 400 ELSE 500
        /\ resJson.kind = "error"
        /\ resEnded
        /\ stmtReqs = <<>>
        /\ body = <<>>

C10_Witness ==
    /\ route = "statements"
    /\ statement.type = "string"
    /\ Len(statement.chars) > 0
    /\ IsBlank(statement)
    /\ resStatus = 400

\* The last history entry, appended by this step.
Consumed == hist'[Len(hist')]

\* This step consumed an upstream event whose data is not valid JSON.
ConsumesInvalid ==
    /\ Len(hist') = Len(hist) + 1
    /\ Consumed.src \in {"primary", "secondary"}
    /\ Consumed.event.data.enc = "invalid"

\* The step wrote the raw string under the event's name and the loop goes on.
RawForwarded ==
    /\ out' = Append(out, SSEFrame(Consumed.event.event, Str(Consumed.event.data.v.str),
                                   Consumed.src))
    /\ pc' = pc
    /\ thrown' = thrown
    /\ ~resEnded'

\* C11 as stated: every upstream event whose data is not valid JSON is
\* forwarded as the raw string under its own name and the loop goes on, in
\* the primary and in the secondary stream.
C11_Original == [][ConsumesInvalid => RawForwarded]_vars

\* C11 amended: an upstream event whose data is not valid JSON and whose name
\* is not execution_trace is forwarded as the raw string under its own name
\* and the loop goes on, in both streams; one named execution_trace is dropped.
C11_DecodeResilience ==
    [][ConsumesInvalid =>
          IF Consumed.event.event = "execution_trace"
          THEN out' = out /\ pc' = pc /\ thrown' = thrown
          ELSE RawForwarded]_vars

\* Both streams delivered text that is not JSON, it was written both times,
\* and the handler went on to consume the primary stream's [DONE].
C11_Witness ==
    /\ \E i, j, k \in 1..Len(hist) :
          /\ i < j /\ j < k
          /\ hist[i].src = "secondary" /\ hist[i].event.data.enc = "invalid"
          /\ hist[j].src = "primary" /\ hist[j].event.data.enc = "invalid"
          /\ hist[j].event.event # "execution_trace"
          /\ hist[k].src = "primary" /\ IsDone(hist[k].event)
    /\ \E i, j \in 1..Len(out) :
          /\ i < j
          /\ out[i] = SSEFrame(Absent, Str("not json"), "secondary")
          /\ out[j] = SSEFrame(Absent, Str("not json"), "primary")
    /\ thrown = "none"


\* The primary events that triggered an interception, in order.
TriggerSeq == SelectSeq(hist, IsTrigger)

\* The SQL text a triggering event carries.
DetectedSql(h) == Decoded(h).content[2].sql

\* C12: the statement submitted for the k-th intercepted SQL is the tenant
\* assignment for the cookie's identity joined to that SQL by ' ->> ' when the
\* demo_username cookie is non-empty, and the detected SQL itself when it is
\* empty or missing.
C12_TenantBinding ==
    route = "run" =>
        /\ Len(stmtReqs) = Len(TriggerSeq)
        /\ \A k \in 1..Len(stmtReqs) :
              stmtReqs[k].statement =
                  IF username # ""
                  THEN "SET TENANT = '" \o username \o "' ->> " \o DetectedSql(TriggerSeq[k])
                  ELSE DetectedSql(TriggerSeq[k])

\* Alice's request had two different SQL texts intercepted.
C12_Witness ==
    /\ route = "run"
    /\ username = "Alice"
    /\ Len(stmtReqs) = 2
    /\ stmtReqs[1].statement = "SET TENANT = 'Alice' ->> SELECT 1"
    /\ stmtReqs[2].statement = "SET TENANT = 'Alice' ->> SELECT 2"

\* The statement-submission responses received so far, in order.
StatementEntries == SelectSeq(hist, LAMBDA h : h.src = "statement")

\* The response carries a non-empty list of handles or a single handle.
HasHandle(h) ==
    \/ h.event.data.v.hasList /\ h.event.data.v.statementHandles # <<>>
    \/ Truthy(h.event.data.v.statementHandle)

IsTableResult(f) == f.event = "table_result" /\ f.src = "handler"

\* C13: an interception whose statement submission cannot be completed, or
\* whose response has neither a list of handles nor a single handle, writes
\* no table_result, opens no secondary stream and ends on the error path.
C13_ExecutionFails ==
    route = "run" =>
        /\ Len(SelectSeq(out, IsTableResult)) = Len(SelectSeq(StatementEntries, HasHandle))
        /\ Len(agentReqs) <= 1 + Len(SelectSeq(StatementEntries, HasHandle))
        /\ (\E i \in 1..Len(StatementEntries) : ~HasHandle(StatementEntries[i]))
               => thrown = "upstream" /\ pc = "ended"
        /\ (Len(stmtReqs) > Len(StatementEntries) /\ pc # "await_statement")
               => thrown = "upstream" /\ pc = "ended"

\* An item, frame or request body that stems from request q.
ItemOf(item, q) == item.text = q \/ item.sql = SqlOf(q)

FrameOf(f, q) ==
    \/ /\ f.data.value.kind = "delta"
       /\ \E i \in 1..Len(f.data.value.content) : ItemOf(f.data.value.content[i], q)
    \/ /\ f.data.value.kind = "stmt"
       /\ f.data.value.statementHandle = HandleOf(q)

\* The follow-up body b of a request with n client messages.
FollowUpOf(b, n, q) ==
    \/ \E i \in 1..n : b.messages[i] \in {MessagesOf(q)[j] : j \in 1..Len(MessagesOf(q))}
    \/ \E i \in 1..Len(b.messages[n + 1].content) : ItemOf(b.messages[n + 1].content[i], q)
    \/ b.messages[n + 2].content[1].json.query_id = HandleOf(q)

\* C14: with requests interleaved, nothing that stems from another request
\* is in a request's accumulated content, statement handle, outbound frames,
\* submitted statements or chained follow-up bodies; sqlDetected is set only
\* by the request's own interception.
C14_RequestIsolation ==
    \A r \in Requests : \A q \in Requests \ {r} :
        /\ \A i \in 1..Len(reqs[r].acc) : ~ItemOf(reqs[r].acc[i], q)
        /\ reqs[r].statementHandle # HandleOf(q)
        /\ reqs[r].sqlDetected <=> reqs[r].stmts # <<>>
        /\ \A i \in 1..Len(reqs[r].out) : ~FrameOf(reqs[r].out[i], q)
        /\ \A i \in 1..Len(reqs[r].stmts) :
              reqs[r].stmts[i].statement = TenantSql(r, SqlOf(r))
        /\ \A i \in 2..Len(reqs[r].sent) :
              /\ Len(reqs[r].sent[i].messages) = Len(reqs[r].messages) + 2
              /\ ~FollowUpOf(reqs[r].sent[i], Len(reqs[r].messages), q)

\* Two requests were both between interception and the end of their
\* secondary streams, each after an accumulated event; one has ended its
\* secondary stream and the other is still chaining.
C14_Witness ==
    /\ reqs["r1"].pc = "chaining"
    /\ reqs["r2"].pc = "relaying"
    /\ Len(reqs["r2"].sent) = 2
    /\ Len(reqs["r1"].sent) = 2
    /\ Len(reqs["r1"].acc) >= 3
    /\ Len(reqs["r2"].acc) >= 3
    /\ Len(reqs["r1"].out) >= 4
    /\ Len(reqs["r2"].out) >= 4

\* This step consumed an event (or the close) of the secondary stream.
ConsumesSecondary ==
    /\ Len(hist') = Len(hist) + 1
    /\ Consumed.src = "secondary"

\* The consumed event carries a tool_results item with SQL at index 1.
CarriesSql(e) ==
    /\ e.data.enc = "json"
    /\ e.data.v.kind = "delta"
    /\ e.data.v.ctype = "array"
    /\ Len(e.data.v.content) >= 2
    /\ e.data.v.content[2].type = "tool_results"
    /\ Truthy(e.data.v.content[2].sql)

\* C15: a step of the secondary stream chainer submits no statement, sends
\* no agent request and writes no done; at the nested [DONE] it writes
\* nothing and hands back to the primary loop; a SQL-bearing nested event is
\* written as it came and the chainer goes on.
C15_ChainerNeverTerminatesNorExecutes ==
    [][ConsumesSecondary =>
          /\ stmtReqs' = stmtReqs
          /\ agentReqs' = agentReqs
          /\ sqlDetected' = sqlDetected
          /\ ~resEnded'
          /\ \/ out' = out
             \/ /\ Len(out') = Len(out) + 1
                /\ SubSeq(out', 1, Len(out)) = out
                /\ out'[Len(out')].event # "done"
                /\ out'[Len(out')].data.enc # "literal"
          /\ IsDone(Consumed.event) => out' = out /\ pc' = "relaying"
          /\ CarriesSql(Consumed.event) =>
                /\ out' = Append(out, SSEFrame(Consumed.event.event, Consumed.event.data.v,
                                               "secondary"))
                /\ pc' = "chaining"]_vars

\* What the statement endpoint has answered to the statements proxy so far.
ProxyEntries == SelectSeq(hist, LAMBDA h : h.src = "proxy")

UpstreamHead == ProxyEntries[1].event.data.v

RECURSIVE ChunksOf(_)
ChunksOf(entries) ==
    IF entries = <<>> THEN <<>>
    ELSE IF Head(entries).event.data.enc = "chunk"
         THEN <<Head(entries).event.data.v.chunk>> \o ChunksOf(Tail(entries))
         ELSE ChunksOf(Tail(entries))

IsMarker(f) == f.event = "new_assistant_message" /\ f.src = "handler"

\* C17: a request submits at most one statement, writes at most one
\* table_result / new_assistant_message pair and opens at most one secondary
\* stream.
C17_AtMostOneInterception ==
    route = "run" =>
        /\ Len(stmtReqs) <= 1
        /\ Len(agentReqs) <= 2
        /\ Len(SelectSeq(out, IsTableResult)) <= 1
        /\ Len(SelectSeq(out, IsMarker)) <= 1

\* A primary event of the Forward class: not dropped, no trigger.
IsForward(h) == h.src = "primary" /\ IsContentEntry(h) /\ ~DropClass(h) /\ ~IsTrigger(h)

IsSqlExecUse(item) == item.type = "tool_use" /\ item.name = "sql_exec"

\* The content items of a decoded payload (none unless delta.content is an array).
ItemsOf(p) == IF p.kind = "delta" /\ p.ctype = "array" THEN p.content ELSE <<>>

\* The items the Forward events of a history contribute, in order.
RECURSIVE ForwardContent(_)
ForwardContent(h) ==
    IF h = <<>> THEN <<>>
    ELSE (IF IsForward(Head(h))
          THEN SelectSeq(ItemsOf(Decoded(Head(h))), LAMBDA item : ~IsSqlExecUse(item))
          ELSE <<>>) \o ForwardContent(Tail(h))

\* The assistant content of the latest follow-up request.
LastAssistantContent == agentReqs[Len(agentReqs)].messages[Len(messages.v) + 1].content

\* C18: the accumulated content holds the items of Forward events only:
\* dropped events and events that trigger interception contribute nothing
\* to it, nor to the assistant message of a chained follow-up request.
C18_OnlyForwardAccumulates ==
    route = "run" =>
        /\ acc = ForwardContent(hist)
        /\ pc = "await_secondary" => LastAssistantContent = ForwardContent(hist)

\* The position in the history of the k-th triggering event.
NthTrigger(k) == CHOOSE i \in Triggers : Cardinality({j \in Triggers : j <= i}) = k

\* The items of the primary events that are accumulated (every event that is
\* not dropped), without the sql_exec tool_use items, in order.
RECURSIVE KeptContent(_)
KeptContent(h) ==
    IF h = <<>> THEN <<>>
    ELSE (IF Head(h).src = "primary" /\ IsContentEntry(Head(h)) /\ ~DropClass(Head(h))
          THEN SelectSeq(ItemsOf(Decoded(Head(h))), LAMBDA item : ~IsSqlExecUse(item))
          ELSE <<>>) \o KeptContent(Tail(h))

\* The assistant content of the k-th agent request (k >= 2: a follow-up).
AssistantContent(k) == agentReqs[k].messages[Len(messages.v) + 1].content

\* C19: the assistant content of each chained request is the content items,
\* as received and in order, of the primary events accumulated up to its
\* trigger, without the sql_exec tool_use items and with no other item
\* missing or changed.
C19_AssistantContent ==
    route = "run" =>
        \A k \in 2..Len(agentReqs) :
            /\ AssistantContent(k) = KeptContent(SubSeq(hist, 1, NthTrigger(k - 1)))
            /\ \A i \in 1..Len(AssistantContent(k)) : ~IsSqlExecUse(AssistantContent(k)[i])

\* This step sent a follow-up request to the agent endpoint.
SendsFollowUp == route = "run" /\ agentReqs # <<>> /\ agentReqs' # agentReqs

\* The handle of a statement-submission response: the last of its list of
\* handles if it has a non-empty one, its single handle otherwise.
SelectedHandle(stmtJson) ==
    IF stmtJson.hasList /\ stmtJson.statementHandles # <<>>
    THEN stmtJson.statementHandles[Len(stmtJson.statementHandles)]
    ELSE stmtJson.statementHandle

\* C20: a follow-up request is sent on receiving the request's statement
\* response, and its message list is the client's messages as received,
\* then an assistant message with the accumulated content, then a user
\* message with one tool_results item named sql_exec and body {query_id:
\* handle of that response}; the client's list and the requests already
\* sent stay as they are.
C20_FollowUpMessages ==
    [][/\ route = "run" =>
            /\ messages' = messages
            /\ SubSeq(agentReqs', 1, Len(agentReqs)) = agentReqs
       /\ SendsFollowUp =>
            /\ Len(hist') = Len(hist) + 1
            /\ Consumed.src = "statement"
            /\ Len(agentReqs') = Len(agentReqs) + 1
            /\ agentReqs'[Len(agentReqs')].messages =
                   messages.v \o
                   << [role |-> "assistant", content |-> acc],
                      [role |-> "user",
                       content |-> << [type |-> "tool_results", name |-> "sql_exec",
                                       json |-> [query_id |->
                                                   SelectedHandle(Consumed.event.data.v)]] >>] >>
      ]_vars

\* A follow-up request was sent after a forwarded event and a trigger, with
\* the last handle of a list of two.
C20_Witness ==
    /\ route = "run"
    /\ pc = "await_secondary"
    /\ Len(agentReqs) = 2
    /\ Len(agentReqs[2].messages) = 4
    /\ agentReqs[2].messages[1] = "m1"
    /\ agentReqs[2].messages[2] = "m2"
    /\ agentReqs[2].messages[3].role = "assistant"
    /\ Len(agentReqs[2].messages[3].content) >= 3
    /\ agentReqs[2].messages[4].content[1].json.query_id = "h2"
    /\ messages.v = <<"m1", "m2">>

\* A statement has been submitted and its response is still awaited.
StatementPending == Len(stmtReqs) > Len(StatementEntries)

\* A follow-up request has been sent and its stream has not ended yet.
SecondaryOpen ==
    \E i \in 1..Len(hist) :
        /\ hist[i].src = "statement"
        /\ \A j \in (i + 1)..Len(hist) :
              ~(hist[j].src = "secondary" /\ hist[j].event.data.enc \in {"done", "close"})

\* The frames this step appended to the outbound stream.
Written == SubSeq(out', Len(out) + 1, Len(out'))

\* C21: the follow-up request is sent in the step that receives the
\* statement response, after table_result has been written; secondary events
\* are consumed only on an open secondary stream; and while a statement is
\* pending or the secondary stream is open no primary event is consumed and
\* no frame of the primary relay is written.
C21_StrictlySequential ==
    [][route = "run" =>
          /\ SendsFollowUp =>
                /\ ~StatementPending'
                /\ Len(hist') = Len(hist) + 1
                /\ Consumed.src = "statement"
                /\ Written = << SSEFrame("table_result", Consumed.event.data.v, "handler"),
                                SSEFrame("new_assistant_message", Marker, "handler") >>
          /\ ConsumesSecondary => SecondaryOpen /\ ~StatementPending
          /\ (StatementPending \/ SecondaryOpen) =>
                /\ ~(Len(hist') = Len(hist) + 1 /\ Consumed.src = "primary")
                /\ \A i \in 1..Len(Written) : Written[i].src # "primary"
          /\ \A i \in 1..Len(Written) : Written[i].src = "secondary" => SecondaryOpen
      ]_vars

\* After an interception whose secondary stream relayed an event and ended,
\* the primary relay wrote again.
C21_Witness ==
    /\ route = "run"
    /\ \E i, j, k \in 1..Len(out) :
          /\ i < j /\ j < k
          /\ IsTableResult(out[i])
          /\ out[j].src = "secondary"
          /\ out[k].src = "primary"
    /\ ~SecondaryOpen

\* This step replaced json.sql by 'REDACTED' in the triggering payload.
Redacts == payload' # payload /\ payload.kind = "delta" /\ payload' = Redact(payload)

IsRedactedItem(item) == item.type = "tool_results" /\ item.sql = "REDACTED"

\* C22: the step that redacts the triggering payload leaves the accumulated
\* content as it is, and no follow-up request ever carries an item whose sql
\* has been replaced by 'REDACTED'.
C22_RedactionSideEffectFree ==
    [][route = "run" =>
          /\ Redacts => acc' = acc
          /\ \A k \in 2..Len(agentReqs') :
                \A i \in 1..Len(agentReqs'[k].messages[Len(messages.v) + 1].content) :
                    ~IsRedactedItem(agentReqs'[k].messages[Len(messages.v) + 1].content[i])
      ]_vars

\* This step consumed a primary event other than [DONE] or the close.
ConsumesPrimaryContent ==
    /\ Len(hist') = Len(hist) + 1
    /\ Consumed.src = "primary"
    /\ IsContentEntry(Consumed)

\* C23: the relay step of every decoded primary payload raises nothing and
\* ends in Drop (nothing written), Intercept (a statement is submitted) or
\* Forward (the payload is written under the event's name); a payload
\* without a tool_results item carrying sql at index 1 that is not dropped
\* is forwarded.
C23_ClassificationTotal ==
    [][ConsumesPrimaryContent =>
          /\ thrown' = thrown
          /\ ~resEnded'
          /\ DropClass(Consumed) => out' = out /\ pc' = pc /\ stmtReqs' = stmtReqs
          /\ (~DropClass(Consumed) /\ IsTrigger(Consumed)) =>
                pc' = "await_statement" /\ Len(stmtReqs') = Len(stmtReqs) + 1
          /\ (~DropClass(Consumed) /\ ~IsTrigger(Consumed)) =>
                /\ out' = Append(out, RelayFrame(Consumed))
                /\ pc' = pc
                /\ stmtReqs' = stmtReqs
      ]_vars

\* The request passed the configuration and body checks.
Accepted == route = "run" /\ snowflakeUrl /\ messages.type = "array"

\* The upstream calls made so far are one primary agent request, one
\* statement submission per interception and one follow-up agent request per
\* statement response received.
OneCallPerStep ==
    /\ Len(agentReqs) = 1 + Len(StatementEntries)
    /\ agentReqs[1] = [config |-> "AGENT_MODEL_CONFIG", messages |-> messages.v]
    /\ Len(stmtReqs) = Len(TriggerSeq)
    /\ Len(StatementEntries) <= Len(stmtReqs)

\* C24: a request that is proxied makes exactly one primary agent request,
\* one statement submission per interception and at most one follow-up agent
\* request per interception; a request that is refused makes none; and once
\* an upstream call or stream has failed no further upstream call is made.
C24_SingleAttempt ==
    [][route' = "run" =>
          /\ Accepted' => OneCallPerStep'
          /\ ~Accepted' => agentReqs' = <<>> /\ stmtReqs' = <<>>
          /\ thrown # "none" => agentReqs' = agentReqs /\ stmtReqs' = stmtReqs
          /\ thrown' # "none" => agentReqs' = agentReqs /\ stmtReqs' = stmtReqs /\ pc' = "ended"
      ]_vars

\* The second statement submission of a request was rejected: two
\* statements and two agent requests were sent, and the request has ended.
C24_Witness ==
    /\ route = "run"
    /\ thrown = "upstream"
    /\ pc = "ended"
    /\ Len(stmtReqs) = 2
    /\ Len(agentReqs) = 2
    /\ Len(TriggerSeq) = 2

\* C25: every /api/agent/run request eventually finishes its handler with
\* the response ended, by res.end() or by res.json(), on every path.
C25_ResponseEventuallyEnded ==
    (route = "run") ~> (pc = "ended" /\ resEnded)

\* A request ended after an interception, a relayed secondary event and an
\* upstream failure of the primary stream.
C25_Witness ==
    /\ route = "run"
    /\ pc = "ended"
    /\ resEnded
    /\ thrown = "upstream"
    /\ sqlDetected
    /\ hist # <<>>
    /\ hist[Len(hist)].src = "secondary"
    /\ hist[Len(hist)].event.data.enc = "done"

\* The client has disconnected.
ClientGone == \E i \in 1..Len(hist) : hist[i].src = "client"

\* C26: once the client has disconnected the handler consumes no further
\* upstream event and issues no further statement submission or agent
\* request.
C26_AbortOnDisconnect ==
    [][ClientGone => hist' = hist /\ agentReqs' = agentReqs /\ stmtReqs' = stmtReqs]_vars

\* The query_id of the k-th agent request (k >= 2: a follow-up).
QueryId(k) == agentReqs[k].messages[Len(messages.v) + 2].content[1].json.query_id

\* C27: in the step that receives a statement-submission response, the
\* first frame written is table_result carrying that response as received,
\* and the follow-up request then sent names the last handle of the
\* response's list when it has a non-empty one and its single handle
\* otherwise.
C27_HandleSelection ==
    [][(route = "run" /\ Len(hist') = Len(hist) + 1 /\ Consumed.src = "statement") =>
          /\ Len(Written) >= 1
          /\ Written[1] = [event |-> "table_result",
                           data |-> [enc |-> "json", value |-> Consumed.event.data.v],
                           src |-> "handler"]
          /\ Len(agentReqs') = Len(agentReqs) + 1
          /\ agentReqs'[Len(agentReqs')].messages[Len(messages.v) + 2].content[1].json.query_id =
                 IF Consumed.event.data.v.hasList /\ Consumed.event.data.v.statementHandles # <<>>
                 THEN Consumed.event.data.v.statementHandles[
                          Len(Consumed.event.data.v.statementHandles)]
                 ELSE Consumed.event.data.v.statementHandle
      ]_vars

\* One request had two interceptions: the first response carried a list of
\* two handles, the second a single handle.
C27_Witness ==
    /\ route = "run"
    /\ Len(agentReqs) = 3
    /\ QueryId(2) = "h2"
    /\ QueryId(3) = "h0"
    /\ Len(SelectSeq(out, IsTableResult)) = 2

\* The frame's data line is the bare sentinel token.
IsBareSentinel(f) == f.data.enc = "literal"

\* C28: a frame whose data line is the bare [DONE] token is named done and
\* written by the handler's finalization, never by the relay of an upstream
\* event of the primary or the secondary stream.
C28_SentinelOnlyByFinalization ==
    \A i \in 1..Len(out) :
        IsBareSentinel(out[i]) => out[i].event = "done" /\ out[i].src = "handler"

\* The handler has written its terminal event.
TerminalWritten == \E i \in 1..Len(out) : IsTerminal(out[i])

\* The primary stream's [DONE] has been consumed.
PrimaryDoneSeen == \E i \in 1..Len(hist) : hist[i].src = "primary" /\ IsDone(hist[i].event)

\* C29: the done or error event the handler writes is the last frame of the
\* response, and once it is written or the primary stream's [DONE] has been
\* consumed, no event is consumed, accumulated or written any more.
C29_NothingAfterTerminal ==
    [][route' = "run" =>
          /\ \A i \in 1..Len(out') : IsTerminal(out'[i]) => i = Len(out')
          /\ (TerminalWritten \/ PrimaryDoneSeen) => out' = out /\ hist' = hist /\ acc' = acc
          /\ (TerminalWritten' \/ PrimaryDoneSeen') => pc' = "ended" /\ resEnded'
      ]_vars

\* A request with an interception and a later forwarded primary event ended
\* at the primary stream's [DONE] with done as its last frame.
C29_Witness ==
    /\ route = "run"
    /\ pc = "ended"
    /\ sqlDetected
    /\ thrown = "none"
    /\ hist[Len(hist)].src = "primary"
    /\ IsDone(hist[Len(hist)].event)
    /\ Len(out) >= 4
    /\ out[Len(out)].event = "done"
    /\ out[Len(out) - 1].src = "primary"

\* C30: whatever response the backend has produced for a /api/agent/run
\* request, once it is complete the chat client's handleNewMessage has set
\* agentState back to IDLE.
C30_ClientReturnsToIdle ==
    (route = "run" /\ pc = "ended") => handleNewMessage(out) = IDLE

\* A browser session: logins, logouts and page requests in any order.
SessionNext ==
    \/ \E u \in LoginUsernames, p \in LoginPasswords : Login(u, p)
    \/ \E result \in LookupResults : LookupResponse(result)
    \/ LookupFails
    \/ Logout
    \/ \E pathname \in Pathnames : PageRequest(pathname)

SessionSpec == Init /\ [][SessionNext]_vars

\* One chat query: the /api/agent/run request the client's handleNewMessage
\* sends, served over the full event alphabets of both upstream streams.
ChatNext ==
    \/ \E msgs \in MessagesInputs, user \in Usernames : AgentRun(msgs, user)
    \/ \E status \in AgentStatuses : PrimaryResponse(status)
    \/ PrimaryRejects
    \/ \E event \in PrimaryEvents \cup {DoneEvent} : PrimaryEvent(event)
    \/ PrimaryEnds
    \/ PrimaryFails
    \/ \E stmtJson \in StmtResponses : StatementResponse(stmtJson)
    \/ StatementRejects
    \/ SecondaryResponse
    \/ SecondaryRejects
    \/ \E event \in SecondaryEvents \cup {DoneEvent} : SecondaryEvent(event)
    \/ SecondaryEnds
    \/ SecondaryFails

ChatSpec == Init /\ [][ChatNext]_vars

\* The first k events of the response hold no event whose data is the
\* literal [DONE].
NoSentinelBefore(k) == \A j \in 1..(k - 1) : out[j].data.enc # "literal"

\* C31: in the chat client, the first event of a response whose data is the
\* literal [DONE] leaves agentState = IDLE and no later event of the response
\* changes the messages or the state; a table_result or new_assistant_message
\* event neither ends processing nor changes agentState.
C31_DoneEndsProcessing ==
    route = "run" =>
        \A prev \in ChatHistories : \A k \in 1..Len(out) :
            /\ (out[k].data.enc = "literal" /\ NoSentinelBefore(k)) =>
                  /\ ClientAfter(prev, k).agentState = IDLE
                  /\ \A j \in k..Len(out) :
                        /\ ClientAfter(prev, j).messages = ClientAfter(prev, k).messages
                        /\ ClientAfter(prev, j).agentState = IDLE
            /\ out[k].event \in {"table_result", "new_assistant_message"} =>
                  /\ ClientAfter(prev, k).agentState = ClientAfter(prev, k - 1).agentState
                  /\ ClientAfter(prev, k).status = ClientAfter(prev, k - 1).status

OutsidePublic(pathname) ==
    /\ ~StartsWith(pathname, <<"/", "a", "p", "i">>)
    /\ ~StartsWith(pathname, <<"/", "_", "n", "e", "x", "t">>)
    /\ ~StartsWith(pathname, <<"/", "f", "a", "v", "i", "c", "o", "n">>)
    /\ ~StartsWith(pathname, <<"/", "l", "o", "g", "i", "n">>)

=============================================================================
